---- MODULE Spec2Model ----
(***************************************************************************)
(* Model of src/Codechef/MinMaxHeap.py: class MinMaxHeap, a min-max heap   *)
(* kept in a Python list whose slot 0 is unused.                           *)
(*                                                                         *)
(* The Python list self.heap is a function with domain 0..len-1, so that   *)
(* every index of the model is the index of the source.  A subscript       *)
(* outside the domain is Python's IndexError.  One action is one public    *)
(* method call, run to completion (return or raise).                       *)
(***************************************************************************)
EXTENDS Integers, FiniteSets, Sequences, Bags, TLC

\* ---- bounds -------------------------------------------------------------
MaxVal == 3       \* items are drawn from 1..MaxVal
MaxSize == 6      \* insert is not called once self.size has reached MaxSize
MaxDeepVal == 2   \* insert-only runs (SpecIns): items are drawn from 1..MaxDeepVal
MaxDeep == 16     \* insert-only runs: up to MaxDeep inserts, so that index 16
                  \* (level 4) has two grandparents above it

Vals == 1..MaxVal

DeepVals == 1..MaxDeepVal

VARIABLES
  heap,     \* self.heap: function 0..len-1 -> value, heap[0] is the unused slot
  size,     \* self.size
  op,       \* the public method called last ("init" before any call)
  err,      \* its outcome: "none" (returned), "empty" (IndexError("Heap is
            \* empty.")), "index" (IndexError raised by a list subscript),
            \* "attribute" (AttributeError: the class has no such method)
  ret,      \* <<v>> when it returned the value v, <<>> otherwise
  swaps,    \* the swaps <<i, j>> the last call made, in order (only insert swaps)
  visited,  \* the index arguments of the bubble-up calls the last call made,
            \* in call order (only insert makes any)
  touched,  \* the list indices the bubble-up of the last call subscripted
  ref,      \* reference multiset: count of each value passed to insert and
            \* not yet returned by delete_min
  nodel     \* TRUE while delete_min has never been called

vars == <<heap, size, op, err, ret, swaps, visited, touched, ref, nodel>>

\* ---- Python list primitives ---------------------------------------------
Len0(h) == Cardinality(DOMAIN h)

InRange(h, i) == i \in DOMAIN h

ListAppend(h, x) == [k \in 0..Len0(h) |-> IF k < Len0(h) THEN h[k] ELSE x]

ListLast(h) == h[Len0(h) - 1]

ListPop(h) == [k \in 0..(Len0(h) - 2) |-> h[k]]

\* the swap written as two assignments, a[i] = a[j]; a[j] = a[i]
Swap_sequential(h, i, j) == [h EXCEPT ![i] = h[j]]

Swap(h, i, j) == [h EXCEPT ![i] = h[j], ![j] = h[i]]

\* ---- index arithmetic ----------------------------------------------------
RECURSIVE Log2Floor(_)
Log2Floor(i) == IF i <= 1 THEN 0 ELSE 1 + Log2Floor(i \div 2)

_is_min_level(i) == IF i = 0 THEN FALSE ELSE Log2Floor(i) % 2 = 0

\* the parent formula of a 0-based heap, used on the 1-based list
_parent_zero_based(i) == (i - 1) \div 2

_parent(i) == i \div 2

_left_child(i) == 2 * i

_right_child(i) == 2 * i + 1

\* ---- bubble-up ------------------------------------------------------------
\* A bubble-up state st is
\*   [h   |-> the list,
\*    sw  |-> the swaps <<i, j>> made so far,
\*    vis |-> the index argument of every call of _bubble_up, _bubble_up_min
\*            and _bubble_up_max so far, in call order,
\*    rd  |-> the set of list indices subscripted so far,
\*    ok  |-> no IndexError so far].
\* Once ok is FALSE the exception propagates: nothing more is done.
BubbleStart(h) == [h |-> h, sw |-> <<>>, vis |-> <<>>, rd |-> {}, ok |-> TRUE]

Enter(st, i) == [st EXCEPT !.vis = Append(st.vis, i)]

\* The comparison self.heap[i] <op> self.heap[j]: subscript i, then subscript
\* j; the first one out of range raises.
Compare(st, i, j) ==
  IF ~InRange(st.h, i) THEN [st EXCEPT !.rd = st.rd \cup {i}, !.ok = FALSE]
  ELSE IF ~InRange(st.h, j) THEN [st EXCEPT !.rd = st.rd \cup {i, j}, !.ok = FALSE]
  ELSE [st EXCEPT !.rd = st.rd \cup {i, j}]

DoSwap(st, i, j) == [st EXCEPT !.h = Swap(st.h, i, j), !.sw = Append(st.sw, <<i, j>>)]

\* _bubble_up_min without the recursive call: one grandparent swap at most
_bubble_up_min_once(st0, i) ==
  LET st == Enter(st0, i)
      grandparent_i == _parent(_parent(i)) IN
  IF grandparent_i >= 1
  THEN LET c == Compare(st, i, grandparent_i) IN
       IF ~c.ok THEN c
       ELSE IF c.h[i] < c.h[grandparent_i]
            THEN DoSwap(c, i, grandparent_i)
            ELSE c
  ELSE st

\* _bubble_up_min that accepts grandparent index 0 (>= 0 instead of >= 1)
RECURSIVE _bubble_up_min_slot0(_, _)
_bubble_up_min_slot0(st0, i) ==
  LET st == Enter(st0, i)
      grandparent_i == _parent(_parent(i)) IN
  IF grandparent_i >= 0
  THEN LET c == Compare(st, i, grandparent_i) IN
       IF ~c.ok THEN c
       ELSE IF c.h[i] < c.h[grandparent_i]
            THEN _bubble_up_min_slot0(DoSwap(c, i, grandparent_i), grandparent_i)
            ELSE c
  ELSE st

RECURSIVE _bubble_up_min(_, _)
_bubble_up_min(st0, i) ==
  LET st == Enter(st0, i)
      grandparent_i == _parent(_parent(i)) IN
  IF grandparent_i >= 1
  THEN LET c == Compare(st, i, grandparent_i) IN
       IF ~c.ok THEN c
       ELSE IF c.h[i] < c.h[grandparent_i]
            THEN _bubble_up_min(DoSwap(c, i, grandparent_i), grandparent_i)
            ELSE c
  ELSE st

RECURSIVE _bubble_up_max(_, _)
_bubble_up_max(st0, i) ==
  LET st == Enter(st0, i)
      grandparent_i == _parent(_parent(i)) IN
  IF grandparent_i >= 1
  THEN LET c == Compare(st, i, grandparent_i) IN
       IF ~c.ok THEN c
       ELSE IF c.h[i] > c.h[grandparent_i]
            THEN _bubble_up_max(DoSwap(c, i, grandparent_i), grandparent_i)
            ELSE c
  ELSE st

\* _bubble_up that, after a parent swap, continues with the chain of the
\* level it came from instead of the parent's level
_bubble_up_same_chain(st0, i) ==
  LET st == Enter(st0, i) IN
  IF i = 1 THEN st
  ELSE LET parent_i == _parent(i)
           c == Compare(st, i, parent_i) IN
       IF ~c.ok THEN c
       ELSE IF _is_min_level(i)
            THEN IF c.h[i] > c.h[parent_i]
                 THEN _bubble_up_min(DoSwap(c, i, parent_i), parent_i)
                 ELSE _bubble_up_min(c, i)
            ELSE IF c.h[i] < c.h[parent_i]
                 THEN _bubble_up_max(DoSwap(c, i, parent_i), parent_i)
                 ELSE _bubble_up_max(c, i)

_bubble_up(st0, i) ==
  LET st == Enter(st0, i) IN
  IF i = 1 THEN st
  ELSE LET parent_i == _parent(i)
           c == Compare(st, i, parent_i) IN
       IF ~c.ok THEN c
       ELSE IF _is_min_level(i)
            THEN IF c.h[i] > c.h[parent_i]
                 THEN _bubble_up_max(DoSwap(c, i, parent_i), parent_i)
                 ELSE _bubble_up_min(c, i)
            ELSE IF c.h[i] < c.h[parent_i]
                 THEN _bubble_up_min(DoSwap(c, i, parent_i), parent_i)
                 ELSE _bubble_up_max(c, i)

\* insert(item): append, size += 1, bubble up from index size.
insert(h, s, item) ==
  LET r == _bubble_up(BubbleStart(ListAppend(h, item)), s + 1)
  IN [h |-> r.h, s |-> s + 1, sw |-> r.sw, vis |-> r.vis, rd |-> r.rd,
      err |-> IF r.ok THEN "none" ELSE "index"]

\* ---- retrieval -------------------------------------------------------------
\* A result is [err |-> outcome, val |-> <<v>> or <<>>].
Returned(v) == [err |-> "none", val |-> <<v>>]

Raised(e) == [err |-> e, val |-> <<>>]

Subscript(h, i) == IF InRange(h, i) THEN Returned(h[i]) ELSE Raised("index")

PyMax(a, b) == IF b > a THEN b ELSE a

\* get_min without the emptiness test
get_min_unguarded(h, s) == Subscript(h, 1)

get_min(h, s) ==
  IF s < 1 THEN Raised("empty") ELSE Subscript(h, 1)

\* get_max that never looks at index 3
get_max_left_only(h, s) ==
  IF s < 1 THEN Raised("empty")
  ELSE IF s = 1 THEN Subscript(h, 1)
  ELSE Subscript(h, 2)

get_max(h, s) ==
  IF s < 1 THEN Raised("empty")
  ELSE IF s = 1 THEN Subscript(h, 1)
  ELSE IF s = 2 THEN Subscript(h, 2)
  ELSE IF InRange(h, 2) /\ InRange(h, 3)
       THEN Returned(PyMax(h[2], h[3]))
       ELSE Raised("index")

\* ---- deletion --------------------------------------------------------------
\* _trickle_down(i) is `pass`: it changes nothing.
_trickle_down(h, i) == h

\* delete_min: result [h, s, err, val].
\*   line 107: size < 1 raises "Heap is empty."
\*   line 111: min_val = heap[1]            (IndexError when len < 2)
\*   line 112: heap[1] = heap.pop()         (pop first, then the store:
\*                                           IndexError when the popped list
\*                                           has no slot 1; size not yet
\*                                           decremented)
\*   line 113: size -= 1
\*   line 116: if size > 0: _trickle_down(1)
delete_min(h, s) ==
  IF s < 1 THEN [h |-> h, s |-> s, err |-> "empty", val |-> <<>>]
  ELSE IF ~InRange(h, 1) THEN [h |-> h, s |-> s, err |-> "index", val |-> <<>>]
  ELSE LET min_val == h[1]
           last == ListLast(h)
           popped == ListPop(h)
       IN IF ~InRange(popped, 1)
          THEN [h |-> popped, s |-> s, err |-> "index", val |-> <<>>]
          ELSE LET h1 == [popped EXCEPT ![1] = last]
                   s1 == s - 1
                   h2 == IF s1 > 0 THEN _trickle_down(h1, 1) ELSE h1
               IN [h |-> h2, s |-> s1, err |-> "none", val |-> <<min_val>>]

\* ---- the state machine ---------------------------------------------------
RefAdd(b, v) == b (+) SetToBag({v})

RefRemove(b, v) == b (-) SetToBag({v})

\* __init__: heap = [0], size = 0
Init ==
  /\ heap = [k \in 0..0 |-> 0]
  /\ size = 0
  /\ op = "init"
  /\ err = "none"
  /\ ret = <<>>
  /\ swaps = <<>>
  /\ visited = <<>>
  /\ touched = {}
  /\ ref = EmptyBag
  /\ nodel = TRUE

\* One call insert(item).
InsertCall(item) ==
  /\ LET r == insert(heap, size, item) IN
       /\ heap' = r.h
       /\ size' = r.s
       /\ err' = r.err
       /\ swaps' = r.sw
       /\ visited' = r.vis
       /\ touched' = r.rd
  /\ op' = "insert"
  /\ ret' = <<>>
  /\ ref' = RefAdd(ref, item)
  /\ nodel' = nodel

Insert(item) ==
  /\ size < MaxSize
  /\ InsertCall(item)

\* insert in a run that never calls delete_min
InsertOnly(item) ==
  /\ size < MaxDeep
  /\ InsertCall(item)

\* get_min written as `return self.heap.pop(1)`: it removes what it returns
GetMin_popping ==
  /\ LET r == get_min(heap, size) IN
       /\ err' = r.err
       /\ ret' = r.val
       /\ heap' = IF r.err = "none"
                  THEN [k \in 0..(Len0(heap) - 2) |-> IF k < 1 THEN heap[k] ELSE heap[k + 1]]
                  ELSE heap
  /\ op' = "get_min"
  /\ swaps' = <<>>
  /\ visited' = <<>>
  /\ touched' = {}
  /\ UNCHANGED <<size, ref, nodel>>

GetMin ==
  /\ LET r == get_min(heap, size) IN
       /\ err' = r.err
       /\ ret' = r.val
  /\ op' = "get_min"
  /\ swaps' = <<>>
  /\ visited' = <<>>
  /\ touched' = {}
  /\ UNCHANGED <<heap, size, ref, nodel>>

GetMax ==
  /\ LET r == get_max(heap, size) IN
       /\ err' = r.err
       /\ ret' = r.val
  /\ op' = "get_max"
  /\ swaps' = <<>>
  /\ visited' = <<>>
  /\ touched' = {}
  /\ UNCHANGED <<heap, size, ref, nodel>>

DeleteMin ==
  /\ LET r == delete_min(heap, size) IN
       /\ heap' = r.h
       /\ size' = r.s
       /\ err' = r.err
       /\ ret' = r.val
       /\ ref' = IF r.err = "none" THEN RefRemove(ref, r.val[1]) ELSE ref
  /\ op' = "delete_min"
  /\ swaps' = <<>>
  /\ visited' = <<>>
  /\ touched' = {}
  /\ nodel' = FALSE

\* A call extract_max(): the class defines insert, get_min, get_max and
\* delete_min (and private helpers) but no extract_max or delete_max, so the
\* attribute lookup raises AttributeError before anything runs.
ExtractMax ==
  /\ op' = "extract_max"
  /\ err' = "attribute"
  /\ ret' = <<>>
  /\ swaps' = <<>>
  /\ visited' = <<>>
  /\ touched' = {}
  /\ UNCHANGED <<heap, size, ref, nodel>>

Next ==
  \/ \E item \in Vals : Insert(item)
  \/ GetMin
  \/ GetMax
  \/ DeleteMin
  \/ ExtractMax

Spec == Init /\ [][Next]_vars

\* insert while the container is being built, before the first delete_min
InsertPhase(item) ==
  /\ nodel
  /\ size < MaxSize
  /\ InsertCall(item)

\* Round-trip runs: some inserts, then delete_min calls only.
NextRT ==
  \/ \E item \in Vals : InsertPhase(item)
  \/ DeleteMin

SpecRT == Init /\ [][NextRT]_vars

\* Runs of insert calls only.
NextIns == \E item \in DeepVals : InsertOnly(item)

SpecIns == Init /\ [][NextIns]_vars

TypeOK ==
  /\ size \in Nat
  /\ Len0(heap) >= 1
  /\ DOMAIN heap = 0..(Len0(heap) - 1)
  /\ heap[0] = 0
  /\ \A k \in 1..(Len0(heap) - 1) : heap[k] \in Vals \cup DeepVals
  /\ op \in {"init", "insert", "get_min", "get_max", "delete_min", "extract_max"}
  /\ err \in {"none", "empty", "index", "attribute"}

\* ---- properties ------------------------------------------------------------
\* the proper ancestors of node d in the implicit tree: d/2, d/4, ..., 1
RECURSIVE Ancestors(_)
Ancestors(d) == IF d <= 1 THEN {} ELSE {d \div 2} \cup Ancestors(d \div 2)

\* floor(log2(i)) even, stated without the code's helper
MinLevel(i) == (1 <= i /\ i < 2) \/ (4 <= i /\ i < 8) \/ (16 <= i /\ i < 32) \/ (64 <= i /\ i < 128)

\* the nodes of the container: indices 1..size that the list holds
Nodes == {i \in 1..size : InRange(heap, i)}

\* every node is ordered against each of its ancestors by the ancestor's
\* level: a min-level node is <= and a max-level node is >= all its subtree
HeapOrder ==
  \A d \in Nodes : \A a \in Ancestors(d) :
    IF MinLevel(a) THEN heap[a] <= heap[d] ELSE heap[a] >= heap[d]

ShapeOK == Len0(heap) = size + 1 /\ DOMAIN heap = 0..size

RefVals == BagToSet(ref)

RefMin == CHOOSE v \in RefVals : \A w \in RefVals : v <= w

RefMax == CHOOSE v \in RefVals : \A w \in RefVals : v >= w

\* C1: in every state reached by insert and delete_min calls, every min-level
\* node is <= and every max-level node is >= every value in its subtree.
C1_HeapOrderAlways == HeapOrder

\* C2: whenever at least one element is contained, get_min returns the
\* smallest contained element (the minimum of the multiset is at index 1).
\* Stated for a well-formed list (len = size + 1), so that a violation is a
\* wrong value returned and not the IndexError that follows a failed
\* delete_min.
C2_MinAtRoot ==
  (size >= 1 /\ ShapeOK) => get_min(heap, size) = Returned(RefMin)

\* C3: whenever at least one element is contained, get_max returns the
\* largest contained element: the root when size is 1, index 2 when size is
\* 2, the larger of indices 2 and 3 when size >= 3.  Stated for a well-formed
\* list, as C2.
C3_MaxAtSecondLevel ==
  (size >= 1 /\ ShapeOK) => get_max(heap, size) = Returned(RefMax)

\* C4: after insert calls only (no delete_min), the min-level and the
\* max-level invariant both hold once insert has returned.
C4_InsertRestoresOrder == nodel => HeapOrder

\* C4 witness: an insert returned after a chain of two grandparent swaps
\* (index 16 to 4 to 1) in a container that holds duplicates.
C4_Witness ==
  /\ nodel /\ op = "insert" /\ err = "none"
  /\ Len(swaps) = 2
  /\ swaps[1] = <<16, 4>> /\ swaps[2] = <<4, 1>>
  /\ size = 16 /\ ShapeOK

\* C5: with no deletion, get_min returns the smallest and get_max the largest
\* inserted value, for every non-empty sequence of inserts in any order; a
\* get_min or get_max call just made has returned exactly that.
C5_InsertOnlyMinMax ==
  (nodel /\ size >= 1) =>
    /\ get_min(heap, size) = Returned(RefMin)
    /\ get_max(heap, size) = Returned(RefMax)
    /\ op = "get_min" => (err = "none" /\ ret = <<RefMin>>)
    /\ op = "get_max" => (err = "none" /\ ret = <<RefMax>>)

\* C5 witness: get_max returned the largest of three distinct inserted values,
\* found at index 3, on a container of at least 3 elements.
C5_Witness ==
  /\ nodel /\ op = "get_max" /\ size >= 3 /\ ShapeOK
  /\ ret = <<heap[3]>> /\ heap[1] < heap[2] /\ heap[2] < heap[3]

\* C6: delete_min on a container of size >= 1 returns the root's value
\* without raising and leaves size one less.
C6_DeleteMinSucceeds ==
  [][(op' = "delete_min" /\ size >= 1) =>
       /\ err' = "none"
       /\ size' = size - 1
       /\ InRange(heap, 1)
       /\ ret' = <<heap[1]>>]_vars

\* C7: a call that raises leaves the backing list and size as they were.
C7_FailureAtomic ==
  [][(err' # "none") => (heap' = heap /\ size' = size)]_vars

\* C8: when size is 0, get_min, get_max and delete_min raise the
\* empty-container error and leave the backing list and size unchanged.
C8_EmptyErrors ==
  [][(size = 0 /\ op' \in {"get_min", "get_max", "delete_min"}) =>
       (err' = "empty" /\ ret' = <<>> /\ heap' = heap /\ size' = size)]_vars

\* C8 witness: delete_min was called on the empty container and raised the
\* empty-container error.
C8_Witness ==
  /\ op = "delete_min" /\ err = "empty" /\ size = 0 /\ Len0(heap) = 1

\* C9: the backing list always holds exactly size elements after slot 0.
C9_Shape == ShapeOK

\* C10: insert never raises, in any reachable state.
C10_InsertAlwaysSucceeds ==
  [][(op' = "insert") => (err' = "none")]_vars

\* C11: on a container built by inserts, the values returned by consecutive
\* delete_min calls are non-decreasing.
C11_ExtractionMonotone ==
  [][(op = "delete_min" /\ err = "none" /\ op' = "delete_min" /\ err' = "none")
       => ret'[1] >= ret[1]]_vars

\* C12: after inserting n elements, n delete_min calls each succeed and
\* return the elements in ascending order (each call returns the least
\* element not yet returned), and the last one leaves the container empty.
C12_RoundTrip ==
  [][(op' = "delete_min" /\ ref # EmptyBag) =>
       /\ err' = "none"
       /\ ret' = <<RefMin>>
       /\ size' = size - 1
       /\ (ref' = EmptyBag => (size' = 0 /\ Len0(heap') = 1))]_vars

\* C13: insert into a container of size n changes only positions on the path
\* from index n+1 up to the root; every index in 1..n that is not an ancestor
\* of n+1 holds the same value after the call as before it.
C13_InsertFrame ==
  [][(op' = "insert") =>
       \A k \in 1..size :
         (InRange(heap, k) /\ k \notin Ancestors(size + 1)) =>
           (InRange(heap', k) /\ heap'[k] = heap[k])]_vars

\* C13 witness: an insert into a container that had lost an element to
\* delete_min swapped the new value upwards while indices off the path exist.
C13_Witness ==
  /\ op = "insert" /\ err = "none" /\ ~nodel
  /\ Len(swaps) >= 1 /\ size >= 6 /\ ShapeOK

\* C14: get_min and get_max, whether they return or raise, leave the backing
\* list and size unchanged.
C14_PeeksDoNotMutate ==
  [][(op' \in {"get_min", "get_max"}) => (heap' = heap /\ size' = size)]_vars

\* C14 witness: get_min returned a value on a container that delete_min had
\* already changed, i.e. a peek made between other operations.
C14_Witness ==
  /\ op = "get_min" /\ err = "none" /\ ~nodel /\ size >= 2 /\ ShapeOK

\* C15: the container offers extract_max: on a non-empty container it
\* removes and returns the maximum and decreases size by 1; on an empty
\* container it fails with the empty-container error.
C15_ExtractMax ==
  [][(op' = "extract_max") =>
       IF size = 0
       THEN err' = "empty"
       ELSE /\ err' = "none"
            /\ size' = size - 1
            /\ ret' = get_max(heap, size).val]_vars

\* the multiset of the values at indices 1..n of list h
ContentBag(h, n) ==
  [v \in {h[k] : k \in 1..n} |-> Cardinality({k \in 1..n : h[k] = v})]

\* C16: from a state with len(heap) = size + 1, insert(item) increases size
\* by 1 and adds exactly one occurrence of item to the multiset at indices
\* 1..size; delete_min on size >= 2 decreases size by 1 and removes exactly
\* one occurrence of the returned value.  No value is lost or duplicated.
C16_Conservation ==
  [][ShapeOK =>
       /\ (op' = "insert") =>
            /\ size' = size + 1
            /\ Len0(heap') = size' + 1
            /\ \E item \in Vals :
                 /\ ref' = ref (+) SetToBag({item})
                 /\ ContentBag(heap', size') = ContentBag(heap, size) (+) SetToBag({item})
       /\ (op' = "delete_min" /\ size >= 2) =>
            /\ err' = "none"
            /\ size' = size - 1
            /\ Len0(heap') = size' + 1
            /\ ContentBag(heap, size) = ContentBag(heap', size') (+) SetToBag({ret'[1]})]_vars

\* C16 witness: delete_min returned a value from a well-formed container of
\* at least 3 elements and left a duplicate at indices 1 and 2 that differs
\* from the returned value.
C16_Witness ==
  /\ op = "delete_min" /\ err = "none" /\ ShapeOK /\ size >= 2
  /\ heap[1] = heap[2] /\ ret # <<heap[1]>>

\* C17: every call completes; the bubble-up started by insert at the new
\* index makes a bounded chain of calls whose indices never increase and
\* strictly decrease from one chain call to the next (each is the grandparent
\* of the one before), never subscripts index 0, and ends at an index >= 1.
C17_BubbleUpCompletes ==
  (op = "insert") =>
    /\ err \in {"none", "index"}
    /\ Len(visited) >= 1
    /\ visited[1] = size
    /\ \A k \in 1..Len(visited) : visited[k] >= 1
    /\ Len(visited) >= 2 => visited[2] \in {visited[1], visited[1] \div 2}
    /\ \A k \in 3..Len(visited) :
         visited[k] = visited[k - 1] \div 4 /\ visited[k] < visited[k - 1]
    /\ Len(visited) = 1 \/ 4^(Len(visited) - 2) <= size
    /\ 0 \notin touched
    /\ \A k \in touched : k >= 1 /\ k <= size

\* C17 witness: an insert at index 16 returned after the calls at 16, 8 and 2
\* (a parent swap, then a grandparent swap up to a child of the root).
C17_Witness ==
  /\ op = "insert" /\ err = "none"
  /\ visited = <<16, 8, 2>> /\ Len(swaps) = 2

\* the argument of the insert call of this step
StepItem == CHOOSE v \in BagToSet(ref') : ref' = ref (+) SetToBag({v})

\* C18: in one insert, a swap with the direct parent happens at most once and
\* only as the first swap, exactly when the new node is on a min-level and
\* greater than its parent or on a max-level and smaller than its parent;
\* every later swap moves the inserted value to its grandparent, all in one
\* direction (greater-than swaps after a min-level parent swap or from a
\* max-level start, less-than swaps after a max-level parent swap or from a
\* min-level start), and the chain stops at the first grandparent that does
\* not violate the order.
C18_BubbleStepOrder ==
  [][(op' = "insert" /\ err' = "none" /\ ShapeOK) =>
       LET n == size + 1
           item == StepItem
           parentDue == /\ n >= 2
                        /\ \/ MinLevel(n) /\ item > heap[n \div 2]
                           \/ ~MinLevel(n) /\ item < heap[n \div 2]
           \* TRUE: the chain swaps while item is greater (max-level chain)
           maxChain == IF parentDue THEN MinLevel(n) ELSE ~MinLevel(n)
           Violates(g) == IF maxChain THEN item > heap[g] ELSE item < heap[g]
           first == IF parentDue THEN 2 ELSE 1
           last == IF swaps' = <<>> THEN n ELSE swaps'[Len(swaps')][2]
       IN /\ parentDue <=> (Len(swaps') >= 1 /\ swaps'[1] = <<n, n \div 2>>)
          /\ Len(swaps') >= 1 => swaps'[1][1] = n
          /\ \A k \in 2..Len(swaps') : swaps'[k][1] = swaps'[k - 1][2]
          /\ \A k \in first..Len(swaps') :
               /\ swaps'[k][2] = swaps'[k][1] \div 4
               /\ swaps'[k][2] >= 1
               /\ Violates(swaps'[k][2])
          /\ (last \div 4 >= 1) => ~Violates(last \div 4)
          /\ heap'[last] = item]_vars

\* C18 witness: an insert at max-level index 8 swapped with its parent 4 and
\* then, as a min-level chain, with the grandparent of 4, the root.
C18_Witness ==
  /\ op = "insert" /\ err = "none"
  /\ swaps = <<<<8, 4>>, <<4, 1>>>>
====
